---- MODULE Spec2Model ----
(***************************************************************************)
(* A model of httpie's command-line input processing (httpie/input.py):    *)
(* the key-value argument type, parse_items, and Parser.parse_args, and of  *)
(* the request arguments built from its result (httpie/client.py).         *)
(*                                                                         *)
(* Text is a sequence of one-character strings, bytes are a sequence of    *)
(* byte values, so that escaping, decoding and parsing are computed.       *)
(***************************************************************************)
EXTENDS Integers, Sequences, FiniteSets, TLC

VARIABLES
    kv_pc,        \* KeyValueArgType.__call__: "start", "tokenized", "done"
    string,       \* the argument of __call__
    separators,   \* self.separators
    tokens,       \* the local `tokens` of __call__
    kv,           \* the KeyValue returned, or the ArgumentTypeError raised
    pi_pc,        \* parse_items: "loop", "build", "done", "raised"
    items,        \* the `items` argument: KeyValue records
    form,         \* TRUE: data_class is ParamsDict, FALSE: OrderedDict
    lists,        \* the local lists headers, data, files, params
    opened,       \* the paths open() was called with, in order
    parsed,       \* the RequestItems returned, or the exception raised
    pc,           \* Parser.parse_args: the step to run next, or how it ended
    args0,        \* the namespace as argparse returned it (never changed)
    args,         \* self.args
    env,          \* self.env
    no_options,   \* the unknown arguments parse_known_args returned
    stdin_read,   \* env.stdin has been read
    prompted,     \* a password prompt has been issued
    error,        \* the message of self.error, or the exception raised
    steps,        \* the steps of parse_args run so far, in order
    default_headers,  \* get_requests_kwargs: get_default_headers(args)
    kwargs        \* the keyword arguments get_requests_kwargs returned

kvVars == <<kv_pc, string, separators, tokens, kv>>
piVars == <<pi_pc, items, form, lists, opened, parsed>>

paVars == <<pc, args0, args, env, no_options, stdin_read, prompted, error,
            steps>>

rqVars == <<default_headers, kwargs>>

vars == <<kv_pc, string, separators, tokens, kv,
          pi_pc, items, form, lists, opened, parsed,
          pc, args0, args, env, no_options, stdin_read, prompted, error,
          steps, default_headers, kwargs>>

(***************************************************************************)
(* Bounds of the model.                                                    *)
(***************************************************************************)
MaxLen == 5          \* longest item string given to KeyValueArgType
MaxItems == 3        \* most items given to parse_items
MaxArgItems == 2     \* most ITEM arguments of an invocation of parse_args
MaxUrlLen == 5       \* longest URL text given to the URL steps

(***************************************************************************)
(* Generic helpers on sequences.                                           *)
(***************************************************************************)
RECURSIVE Join(_)
Join(ss) == IF ss = <<>> THEN <<>> ELSE Head(ss) \o Join(Tail(ss))

SeqsUpTo(S, n) == UNION {[1..k -> S] : k \in 0..n}

\* token[pos:pos+len(sep)] == sep, with a 0-based pos as in Python
StartsAt(token, sep, pos) ==
    /\ pos + Len(sep) <= Len(token)
    /\ \A j \in 1..Len(sep) : token[pos + j] = sep[j]

\* str.find: the lowest 0-based index where sep occurs, -1 if none
StrFind(token, sep) ==
    LET hits == {p \in 0..Len(token) : StartsAt(token, sep, p)}
    IN  IF hits = {} THEN -1 ELSE CHOOSE p \in hits : \A q \in hits : p <= q

(***************************************************************************)
(* Separators (input.py 34-75).                                            *)
(***************************************************************************)
SEP_HEADERS == <<":">>
SEP_CREDENTIALS == <<":">>
SEP_DATA == <<"=">>
SEP_DATA_RAW_JSON == <<":", "=">>
SEP_FILES == <<"@">>
SEP_DATA_EMBED_FILE == <<"=", "@">>
SEP_DATA_EMBED_RAW_JSON_FILE == <<":", "=", "@">>
SEP_QUERY == <<"=", "=">>

SEP_GROUP_DATA_ITEMS ==
    {SEP_DATA, SEP_DATA_RAW_JSON, SEP_FILES, SEP_DATA_EMBED_FILE,
     SEP_DATA_EMBED_RAW_JSON_FILE}

SEP_GROUP_DATA_EMBED_ITEMS ==
    {SEP_DATA_EMBED_FILE, SEP_DATA_EMBED_RAW_JSON_FILE}

SEP_GROUP_RAW_JSON_ITEMS ==
    {SEP_DATA_RAW_JSON, SEP_DATA_EMBED_RAW_JSON_FILE}

SEP_GROUP_ALL_ITEMS ==
    {SEP_HEADERS, SEP_QUERY, SEP_DATA, SEP_DATA_RAW_JSON, SEP_FILES,
     SEP_DATA_EMBED_FILE, SEP_DATA_EMBED_RAW_JSON_FILE}

(***************************************************************************)
(* KeyValueArgType (input.py 422-507).                                     *)
(***************************************************************************)
\* __init__: backslash plus every character of every separator
SpecialCharacters(seps) ==
    {"\\"} \cup UNION {{sep[j] : j \in 1..Len(sep)} : sep \in seps}

Plain(text) == [escaped |-> FALSE, text |-> text]
Escaped(char) == [escaped |-> TRUE, text |-> char]

\* tokens[-1] += text
AppendToLast(toks, text) ==
    [toks EXCEPT ![Len(toks)] = Plain(toks[Len(toks)].text \o text)]

\* One iteration of `for char in characters` from index i; a backslash
\* consumes the following character too (next(characters, '')).
RECURSIVE TokenizeFrom(_, _, _, _)
TokenizeFrom(str, special, i, toks) ==
    IF i > Len(str) THEN toks
    ELSE IF str[i] = "\\"
    THEN LET char == IF i + 1 <= Len(str) THEN <<str[i + 1]>> ELSE <<>>
         IN  IF char = <<>> \/ char[1] \notin special
             THEN TokenizeFrom(str, special, i + 2,
                               AppendToLast(toks, <<"\\">> \o char))
             ELSE TokenizeFrom(str, special, i + 2,
                               toks \o <<Escaped(char), Plain(<<>>)>>)
    ELSE TokenizeFrom(str, special, i + 1, AppendToLast(toks, <<str[i]>>))

TokenizeNoEscape(str, special) ==
    <<Plain([i \in 1..Len(str) |-> str[i]])>>

tokenize(str, special) == TokenizeFrom(str, special, 1, <<Plain(<<>>)>>)

\* sorted(self.separators, key=len); separators of one length differ in
\* text, so their relative order cannot change `found`.
RECURSIVE SetToSeq(_)
SetToSeq(S) ==
    IF S = {} THEN <<>>
    ELSE LET x == CHOOSE y \in S : TRUE IN <<x>> \o SetToSeq(S \ {x})

SortedSeparators(seps) ==
    LET maxlen == IF seps = {} THEN 0
                  ELSE CHOOSE n \in {Len(s) : s \in seps} :
                           \A s \in seps : Len(s) <= n
    IN  Join([n \in 1..maxlen |-> SetToSeq({s \in seps : Len(s) = n})])

\* The `found` dictionary of one token: position -> separator, a later
\* (longer) separator overwriting an earlier one at the same position.
RECURSIVE FoundFrom(_, _, _, _)
FoundFrom(token, sorted, k, found) ==
    IF k > Len(sorted) THEN found
    ELSE LET pos == StrFind(token, sorted[k])
         IN  IF pos /= -1
             THEN FoundFrom(token, sorted, k + 1, (pos :> sorted[k]) @@ found)
             ELSE FoundFrom(token, sorted, k + 1, found)

Reversed(seq) == [j \in 1..Len(seq) |-> seq[Len(seq) + 1 - j]]

FoundShortestWins(token, seps) ==
    FoundFrom(token, Reversed(SortedSeparators(seps)), 1, <<>>)

Found(token, seps) == FoundFrom(token, SortedSeparators(seps), 1, <<>>)

MinOf(S) == CHOOSE p \in S : \A q \in S : p <= q

TokenTexts(toks) == [j \in 1..Len(toks) |-> toks[j].text]

\* The `for i, token in enumerate(tokens)` loop with its else clause.
RECURSIVE SplitFrom(_, _, _, _)
SplitFrom(orig, toks, seps, i) ==
    IF i > Len(toks)
    THEN [ok |-> FALSE, key |-> <<>>, value |-> <<>>, sep |-> <<>>,
          orig |-> orig]
    ELSE IF toks[i].escaped THEN SplitFrom(orig, toks, seps, i + 1)
    ELSE LET token == toks[i].text
             found == Found(token, seps)
         IN  IF DOMAIN found = {} THEN SplitFrom(orig, toks, seps, i + 1)
             ELSE LET pos == MinOf(DOMAIN found)
                      sep == found[pos]
                      \* token.split(sep, 1)
                      at == StrFind(token, sep)
                      key == SubSeq(token, 1, at)
                      value == SubSeq(token, at + Len(sep) + 1, Len(token))
                  IN  [ok |-> TRUE,
                       key |-> Join(SubSeq(TokenTexts(toks), 1, i - 1)) \o key,
                       value |-> value \o
                           Join(SubSeq(TokenTexts(toks), i + 1, Len(toks))),
                       sep |-> sep,
                       orig |-> orig]

\* KeyValueArgType(*seps).__call__(str)
KeyValueArgType(str, seps) ==
    SplitFrom(str, tokenize(str, SpecialCharacters(seps)), seps, 1)

(***************************************************************************)
(* Values.  A Python value is a record [t, v]: "str" with its characters,  *)
(* "num" with <<n>>, "list" with its elements, "bytes" with its byte       *)
(* values, "file" with <<basename, bytes>> for (name, BytesIO).            *)
(***************************************************************************)
Str(text) == [t |-> "str", v |-> text]
Num(n) == [t |-> "num", v |-> <<n>>]
List(elems) == [t |-> "list", v |-> elems]
Bytes(bs) == [t |-> "bytes", v |-> bs]
FileTuple(name, bs) == [t |-> "file", v |-> <<name, bs>>]

(***************************************************************************)
(* The file system and the conversions parse_items applies to a value.     *)
(***************************************************************************)
\* The files that exist, by expanded path, with their bytes.
FileSystem ==
    (<<"d", "/", "t">> :> <<120>>)              \* d/t    holds  x
    @@ (<<"j">> :> <<49>>)                      \* j      holds  1
    @@ (<<"l">> :> <<91, 49, 93>>)              \* l      holds  [1]
    @@ (<<"u">> :> <<120, 255>>)                \* u      is not UTF-8
    @@ (<<"e">> :> <<>>)                        \* e      is empty
    @@ (<<"h", "/", "j">> :> <<50>>)            \* h/j    holds  2
    @@ (<<"f", ".", "c">> :> <<120>>)           \* f.c    holds  x

HomeDir == <<"h">>

\* os.path.expanduser: a leading "~" alone or before "/" is the home dir
ExpandUser(path) ==
    IF Len(path) >= 1 /\ path[1] = "~" /\ (Len(path) = 1 \/ path[2] = "/")
    THEN HomeDir \o SubSeq(path, 2, Len(path))
    ELSE path

\* os.path.basename: the text after the last "/"
BaseName(path) ==
    LET slashes == {i \in 1..Len(path) : path[i] = "/"}
    IN  IF slashes = {} THEN path
        ELSE SubSeq(path, (CHOOSE i \in slashes : \A k \in slashes : k <= i) + 1,
                    Len(path))

\* chr() of the ASCII bytes the files hold
Chr == (49 :> "1") @@ (50 :> "2") @@ (91 :> "[") @@ (93 :> "]")
       @@ (44 :> ",") @@ (120 :> "x")

\* bytes.decode('utf8') of bytes that are all ASCII; ok is FALSE for the
\* UnicodeDecodeError a byte that is no valid UTF-8 start raises
DecodeUtf8(bs) ==
    IF \A i \in 1..Len(bs) : bs[i] \in DOMAIN Chr
    THEN [ok |-> TRUE, text |-> [i \in 1..Len(bs) |-> Chr[bs[i]]]]
    ELSE [ok |-> FALSE, text |-> <<>>]

Digit == ("0" :> 0) @@ ("1" :> 1) @@ ("2" :> 2) @@ ("8" :> 8)

IsInt(text) ==
    /\ Len(text) >= 1
    /\ \A i \in 1..Len(text) : text[i] \in DOMAIN Digit
    /\ Len(text) = 1 \/ text[1] /= "0"

RECURSIVE IntOf(_)
IntOf(text) ==
    IF text = <<>> THEN 0
    ELSE 10 * IntOf(SubSeq(text, 1, Len(text) - 1)) + Digit[text[Len(text)]]

\* text.split(ch)
RECURSIVE SplitOn(_, _)
SplitOn(text, ch) ==
    LET at == StrFind(text, <<ch>>)
    IN  IF at = -1 THEN <<text>>
        ELSE <<SubSeq(text, 1, at)>>
                 \o SplitOn(SubSeq(text, at + 2, Len(text)), ch)

\* load_json_preserve_order (json.loads) on the JSON texts of the model:
\* an integer, or an array of integers; ok is FALSE for the ValueError
LoadJson(text) ==
    IF IsInt(text) THEN [ok |-> TRUE, value |-> Num(IntOf(text))]
    ELSE IF Len(text) >= 2 /\ text[1] = "[" /\ text[Len(text)] = "]"
    THEN LET inner == SubSeq(text, 2, Len(text) - 1)
             parts == SplitOn(inner, ",")
         IN  IF inner = <<>> THEN [ok |-> TRUE, value |-> List(<<>>)]
             ELSE IF \A i \in 1..Len(parts) : IsInt(parts[i])
             THEN [ok |-> TRUE,
                   value |-> List([i \in 1..Len(parts) |->
                                       Num(IntOf(parts[i]))])]
             ELSE [ok |-> FALSE, value |-> Str(text)]
    ELSE [ok |-> FALSE, value |-> Str(text)]

(***************************************************************************)
(* The bucket classes.  A mapping is a sequence of [k, v] in key order.    *)
(***************************************************************************)
KeyIndex(d, key) ==
    LET hits == {i \in 1..Len(d) : d[i].k = key}
    IN  IF hits = {} THEN 0 ELSE CHOOSE i \in hits : TRUE

\* OrderedDict.__setitem__: a key keeps its place, the value is replaced
OrderedSet(d, key, value) ==
    IF KeyIndex(d, key) = 0 THEN Append(d, [k |-> key, v |-> value])
    ELSE [d EXCEPT ![KeyIndex(d, key)].v = value]

MultiSetOverwrite(d, key, value) == OrderedSet(d, key, value)

\* RequestItemsDict.__setitem__ (input.py 566-580) after its assertion

MultiSet(d, key, value) ==
    LET i == KeyIndex(d, key)
    IN  IF i = 0 THEN Append(d, [k |-> key, v |-> value])
        ELSE IF d[i].v.t /= "list"
        THEN [d EXCEPT ![i].v = List(<<d[i].v, value>>)]
        ELSE [d EXCEPT ![i].v = List(Append(d[i].v.v, value))]

Lower ==
    ("A" :> "a") @@ ("B" :> "b") @@ ("C" :> "c") @@ ("D" :> "d") @@
    ("E" :> "e") @@ ("F" :> "f") @@ ("G" :> "g") @@ ("H" :> "h") @@
    ("I" :> "i") @@ ("J" :> "j") @@ ("K" :> "k") @@ ("L" :> "l") @@
    ("M" :> "m") @@ ("N" :> "n") @@ ("O" :> "o") @@ ("P" :> "p") @@
    ("Q" :> "q") @@ ("R" :> "r") @@ ("S" :> "s") @@ ("T" :> "t") @@
    ("U" :> "u") @@ ("V" :> "v") @@ ("W" :> "w") @@ ("X" :> "x") @@
    ("Y" :> "y") @@ ("Z" :> "z")

\* str.lower()
LowerText(text) ==
    [i \in 1..Len(text) |->
        IF text[i] \in DOMAIN Lower THEN Lower[text[i]] ELSE text[i]]

\* CaseInsensitiveDict.__setitem__: found by lower-cased key, the key
\* keeps its place and is stored as last written
CaseInsensitiveSet(d, key, value) ==
    LET hits == {i \in 1..Len(d) : LowerText(d[i].k) = LowerText(key)}
    IN  IF hits = {} THEN Append(d, [k |-> key, v |-> value])
        ELSE [d EXCEPT ![CHOOSE i \in hits : TRUE] = [k |-> key, v |-> value]]

\* cls(pairs): the mapping built by setting each pair in order; ok is
\* FALSE when RequestItemsDict's `assert not isinstance(value, list)` fails
RECURSIVE BuildDict(_, _, _)
BuildDict(cls, pairs, d) ==
    IF pairs = <<>> THEN [ok |-> TRUE, d |-> d]
    ELSE LET key == Head(pairs).k
             value == Head(pairs).v
         IN  CASE cls = "CaseInsensitiveDict" ->
                      BuildDict(cls, Tail(pairs),
                                CaseInsensitiveSet(d, key, value))
               [] cls = "OrderedDict" ->
                      BuildDict(cls, Tail(pairs), OrderedSet(d, key, value))
               [] OTHER ->     \* ParamsDict, DataDict
                      IF value.t = "list" THEN [ok |-> FALSE, d |-> d]
                      ELSE BuildDict(cls, Tail(pairs),
                                     MultiSet(d, key, value))

(***************************************************************************)
(* parse_items (input.py 601-659).                                         *)
(***************************************************************************)
\* open(os.path.expanduser(value), 'rb').read()
ReadFile(path) ==
    IF ExpandUser(path) \in DOMAIN FileSystem
    THEN [ok |-> TRUE, bytes |-> FileSystem[ExpandUser(path)]]
    ELSE [ok |-> FALSE, bytes |-> <<>>]

\* the data branch tested before the file branch
TargetOfDataFirst(sep) ==
    CASE sep = SEP_HEADERS -> "headers"
      [] sep = SEP_QUERY -> "params"
      [] sep \in SEP_GROUP_DATA_ITEMS -> "data"
      [] OTHER -> "TypeError"

\* the list an item is appended to
TargetOf(sep) ==
    CASE sep = SEP_HEADERS -> "headers"
      [] sep = SEP_QUERY -> "params"
      [] sep = SEP_FILES -> "files"
      [] sep \in SEP_GROUP_DATA_ITEMS -> "data"
      [] OTHER -> "TypeError"

\* One iteration of `for item in items`: the value stored, the paths
\* opened, and the exception raised if any.
ClassifyItem(item) ==
    LET sep == item.sep
        none == [error |-> "", value |-> Str(item.value), opened |-> <<>>]
    IN  IF sep = SEP_HEADERS \/ sep = SEP_QUERY THEN none
        ELSE IF sep = SEP_FILES
        THEN LET f == ReadFile(item.value)
             IN  IF f.ok
                 THEN [error |-> "",
                       value |-> FileTuple(BaseName(item.value), f.bytes),
                       opened |-> <<item.value>>]
                 ELSE [error |-> "IOError", value |-> Str(item.value),
                       opened |-> <<item.value>>]
        ELSE IF sep \in SEP_GROUP_DATA_ITEMS
        THEN LET embed == sep \in SEP_GROUP_DATA_EMBED_ITEMS
                 f == ReadFile(item.value)
                 dec == DecodeUtf8(f.bytes)
                 text == IF embed THEN dec.text ELSE item.value
                 js == LoadJson(text)
                 ops == IF embed THEN <<item.value>> ELSE <<>>
             IN  IF embed /\ ~f.ok
                 THEN [error |-> "IOError", value |-> Str(item.value),
                       opened |-> ops]
                 ELSE IF embed /\ ~dec.ok
                 THEN [error |-> "UnicodeDecodeError",
                       value |-> Str(item.value), opened |-> ops]
                 ELSE IF sep \in SEP_GROUP_RAW_JSON_ITEMS
                 THEN IF js.ok
                      THEN [error |-> "", value |-> js.value, opened |-> ops]
                      ELSE [error |-> "ValueError", value |-> Str(text),
                            opened |-> ops]
                 ELSE [error |-> "", value |-> Str(text), opened |-> ops]
        ELSE [error |-> "TypeError", value |-> Str(item.value),
              opened |-> <<>>]

EmptyLists == [headers |-> <<>>, data |-> <<>>, files |-> <<>>,
               params |-> <<>>]

NoBuckets == [status |-> "", orig |-> <<>>, headers |-> <<>>, data |-> <<>>,
              files |-> <<>>, params |-> <<>>]

\* raise ParseError('"%s": ...' % item.orig), or the TypeError
Raised(exc, item) ==
    [NoBuckets EXCEPT !.status = IF exc = "TypeError" THEN "TypeError"
                                 ELSE "ParseError",
                      !.orig = item.orig]

\* input.py 656-659: the four classes applied to the four lists
BuildBuckets(ls, isForm) ==
    LET h == BuildDict("CaseInsensitiveDict", ls.headers, <<>>)
        d == BuildDict(IF isForm THEN "ParamsDict" ELSE "OrderedDict",
                       ls.data, <<>>)
        f == BuildDict("DataDict", ls.files, <<>>)
        q == BuildDict("ParamsDict", ls.params, <<>>)
    IN  IF h.ok /\ d.ok /\ f.ok /\ q.ok
        THEN [status |-> "ok", orig |-> <<>>, headers |-> h.d, data |-> d.d,
              files |-> f.d, params |-> q.d]
        ELSE [NoBuckets EXCEPT !.status = "AssertionError"]

\* the files of the items after a failing one are opened as well
RECURSIVE ParseItemsKeepReading(_, _, _, _, _)
ParseItemsKeepReading(its, isForm, i, ls, ops) ==
    IF i > Len(its) THEN [res |-> BuildBuckets(ls, isForm), opened |-> ops]
    ELSE LET c == ClassifyItem(its[i])
             rest == ParseItemsKeepReading(its, isForm, i + 1,
                         IF c.error /= "" THEN ls
                         ELSE [ls EXCEPT ![TargetOf(its[i].sep)] =
                                  Append(@, [k |-> its[i].key, v |-> c.value])],
                         ops \o c.opened)
         IN  IF c.error /= ""
             THEN [res |-> Raised(c.error, its[i]), opened |-> rest.opened]
             ELSE rest

\* parse_items(items, data_class) as one call: the result and the paths
\* opened on the way
RECURSIVE ParseItemsFrom(_, _, _, _, _)
ParseItemsFrom(its, isForm, i, ls, ops) ==
    IF i > Len(its) THEN [res |-> BuildBuckets(ls, isForm), opened |-> ops]
    ELSE LET c == ClassifyItem(its[i])
             target == TargetOf(its[i].sep)
         IN  IF c.error /= ""
             THEN [res |-> Raised(c.error, its[i]),
                   opened |-> ops \o c.opened]
             ELSE ParseItemsFrom(its, isForm, i + 1,
                      [ls EXCEPT ![target] =
                          Append(@, [k |-> its[i].key, v |-> c.value])],
                      ops \o c.opened)

parse_items(its, isForm) == ParseItemsFrom(its, isForm, 1, EmptyLists, <<>>)

(***************************************************************************)
(* Parser.parse_args (input.py 106-386): values and helpers.               *)
(***************************************************************************)
\* An optional text: None, or a str.
None == [none |-> TRUE, text |-> <<>>]
Some(text) == [none |-> FALSE, text |-> text]

\* A mapping as a value, and a value not assigned yet.
Dict(pairs) == [t |-> "dict", v |-> pairs]
Unset == [t |-> "unset", v |-> <<>>]

\* bool(value) of a mapping or of bytes
Truthy(value) == value.v /= <<>>

HTTP_POST == <<"P", "O", "S", "T">>
HTTP_GET == <<"G", "E", "T">>
HTTP == <<"h", "t", "t", "p", ":", "/", "/">>
LOCALHOST == <<"l", "o", "c", "a", "l", "h", "o", "s", "t">>

Letters ==
    {"a", "b", "c", "d", "e", "f", "g", "h", "i", "j", "k", "l", "m", "n",
     "o", "p", "q", "r", "s", "t", "u", "v", "w", "x", "y", "z",
     "A", "B", "C", "D", "E", "F", "G", "H", "I", "J", "K", "L", "M", "N",
     "O", "P", "Q", "R", "S", "T", "U", "V", "W", "X", "Y", "Z"}

Digits == {"0", "1", "2", "3", "4", "5", "6", "7", "8", "9"}

\* re.match('^[a-zA-Z]+$', text)
IsMethodShaped(text) ==
    Len(text) >= 1 /\ \A i \in 1..Len(text) : text[i] \in Letters

\* URL_SCHEME_RE.match(url): '^[a-z][a-z0-9.+-]*://', ignoring case
MatchesScheme(url) ==
    \E n \in 1..Len(url) :
        /\ url[1] \in Letters
        /\ \A i \in 2..n : url[i] \in Letters \cup Digits \cup {".", "+", "-"}
        /\ StartsAt(url, <<":", "/", "/">>, n)

\* The longest run of digits of text from index i on.
RECURSIVE DigitsFrom(_, _)
DigitsFrom(text, i) ==
    IF i <= Len(text) /\ text[i] \in Digits
    THEN <<text[i]>> \o DigitsFrom(text, i + 1)
    ELSE <<>>

\* every text gets the http:// prefix
NormalizedNoShorthand(url) == IF MatchesScheme(url) THEN url ELSE HTTP \o url

\* input.py 139-150: the URL after normalization.  The shorthand pattern
\* '^:(?!:)(\d*)(/?.*)$' matches a ':' not followed by ':'; group 1 is the
\* digits that follow, group 2 the rest of the text.
Normalized(url) ==
    IF MatchesScheme(url) THEN url
    ELSE IF Len(url) >= 1 /\ url[1] = ":" /\ (Len(url) = 1 \/ url[2] /= ":")
    THEN LET port == DigitsFrom(url, 2)
             rest == SubSeq(url, 2 + Len(port), Len(url))
         IN  HTTP \o LOCALHOST
                 \o (IF port /= <<>> THEN <<":">> \o port ELSE <<>>)
                 \o rest
    ELSE HTTP \o url

\* The lowest index from i on of a character of `stops`, or Len + 1.
FirstOf(text, i, stops) ==
    LET hits == {k \in i..Len(text) : text[k] \in stops}
    IN  IF hits = {} THEN Len(text) + 1 ELSE MinOf(hits)

\* urlsplit(url).username and .password of a URL that has a scheme://
UrlSplit(url) ==
    LET start == StrFind(url, <<":", "/", "/">>) + 4
        stop == FirstOf(url, start, {"/", "?", "#"})
        netloc == SubSeq(url, start, stop - 1)
        ats == {k \in 1..Len(netloc) : netloc[k] = "@"}
        lastAt == CHOOSE k \in ats : \A m \in ats : m <= k
        userinfo == SubSeq(netloc, 1, lastAt - 1)
        colon == StrFind(userinfo, <<":">>)
    IN  IF ats = {} THEN [netloc |-> netloc, username |-> None,
                          password |-> None]
        ELSE IF colon = -1
        THEN [netloc |-> netloc, username |-> Some(userinfo),
              password |-> None]
        ELSE [netloc |-> netloc,
              username |-> Some(SubSeq(userinfo, 1, colon)),
              password |-> Some(SubSeq(userinfo, colon + 2, Len(userinfo)))]

\* args.auth: None, or AuthCredentials whose value may be None
NoAuth == [given |-> FALSE, key |-> <<>>, value |-> None, orig |-> <<>>]

\* AuthCredentialsArgType.__call__ (input.py 533-548)
AuthCredentialsArgType(str) ==
    LET r == KeyValueArgType(str, {SEP_CREDENTIALS})
    IN  IF r.ok
        THEN [given |-> TRUE, key |-> r.key, value |-> Some(r.value),
              orig |-> str]
        ELSE [given |-> TRUE, key |-> str, value |-> None, orig |-> str]

\* OUTPUT_OPTIONS and the defaults (input.py 79-103)
OUT_REQ_HEAD == "H"
OUT_REQ_BODY == "B"
OUT_RESP_HEAD == "h"
OUT_RESP_BODY == "b"
OUTPUT_OPTIONS == {OUT_REQ_HEAD, OUT_REQ_BODY, OUT_RESP_HEAD, OUT_RESP_BODY}
OUTPUT_OPTIONS_DEFAULT == <<OUT_RESP_HEAD, OUT_RESP_BODY>>
OUTPUT_OPTIONS_DEFAULT_STDOUT_REDIRECTED == <<OUT_RESP_BODY>>

CharsOf(text) == {text[i] : i \in 1..Len(text)}

\* The orders in which a set may be iterated.
Orders(S) ==
    {o \in [1..Cardinality(S) -> S] : \A x \in S : \E i \in DOMAIN o : o[i] = x}

\* str(a set of characters iterated in the order o): "set()", or
\* "{'h', 'H'}"
StrOfSet(o) ==
    IF o = <<>> THEN <<"s", "e", "t", "(", ")">>
    ELSE <<"{">>
         \o Join([i \in 1..Len(o) |->
                     (IF i > 1 THEN <<",", " ">> ELSE <<>>)
                         \o <<"'", o[i], "'">>])
         \o <<"}">>

\* PRETTY_MAP (input.py 92-97)
PRETTY_MAP ==
    [all |-> {"format", "colors"}, colors |-> {"colors"},
     format |-> {"format"}, none |-> {}]

\* mimetypes.guess_type(fn, strict=False) by the text after the last "."
GuessType(fn) ==
    LET dots == {i \in 1..Len(fn) : fn[i] = "."}
        ext == IF dots = {} THEN <<>>
               ELSE SubSeq(fn, (CHOOSE i \in dots : \A k \in dots : k <= i),
                           Len(fn))
    IN  IF ext = <<".", "c">>
        THEN Some(<<"t", "e", "x", "t", "/", "p", "l", "a", "i", "n">>)
        ELSE None

\* 'Content-Type' in headers, a CaseInsensitiveDict
CONTENT_TYPE ==
    <<"C", "o", "n", "t", "e", "n", "t", "-", "T", "y", "p", "e">>

HasHeader(headers, name) ==
    \E i \in 1..Len(headers) : LowerText(headers[i].k) = LowerText(name)

\* The options the parser declares for _apply_no_options: option string,
\* destination and default.
OPT_DOWNLOAD == <<"-", "-", "d", "o", "w", "n", "l", "o", "a", "d">>
OPT_FORM == <<"-", "-", "f", "o", "r", "m">>
ParserActions == (OPT_DOWNLOAD :> "download") @@ (OPT_FORM :> "form")

NO_PREFIX == <<"-", "-", "n", "o", "-">>

\* not option.startswith('--no-'), or no action has '--' + option[5:]
InvalidNoOption(option) ==
    \/ ~StartsAt(option, NO_PREFIX, 0)
    \/ <<"-", "-">> \o SubSeq(option, 6, Len(option)) \notin DOMAIN ParserActions

\* the destinations the valid --no-OPTION arguments reset to their default
ResetDests(options) ==
    {ParserActions[<<"-", "-">> \o SubSeq(options[i], 6, Len(options[i]))] :
        i \in {k \in 1..Len(options) : ~InvalidNoOption(options[k])}}

\* No call of parse_args in progress.
IdlePA ==
    /\ pc = "idle"
    /\ args0 = <<>>
    /\ args = <<>>
    /\ env = <<>>
    /\ no_options = <<>>
    /\ stdin_read = FALSE
    /\ prompted = FALSE
    /\ error = ""
    /\ steps = <<>>

\* No call of get_requests_kwargs yet.
IdleRQ ==
    /\ default_headers = <<>>
    /\ kwargs = <<>>

(***************************************************************************)
(* Specification SpecKV: __call__ applied to every bounded item string.    *)
(***************************************************************************)
Alphabet == {"a", ":", "=", "@", "\\"}

SeparatorSets == {SEP_GROUP_ALL_ITEMS, {SEP_CREDENTIALS}}

NoKV == [ok |-> FALSE, key |-> <<>>, value |-> <<>>, sep |-> <<>>,
         orig |-> <<>>]

\* No call of KeyValueArgType in progress.
IdleKV ==
    /\ kv_pc = "idle"
    /\ string = <<>>
    /\ separators = {}
    /\ tokens = <<>>
    /\ kv = NoKV

\* No call of parse_items in progress.
IdlePI ==
    /\ pi_pc = "idle"
    /\ items = <<>>
    /\ form = FALSE
    /\ lists = EmptyLists
    /\ opened = <<>>
    /\ parsed = NoBuckets

InitKV ==
    /\ kv_pc = "start"
    /\ string \in SeqsUpTo(Alphabet, MaxLen)
    /\ separators \in SeparatorSets
    /\ tokens = <<>>
    /\ kv = NoKV
    /\ IdlePI
    /\ IdlePA
    /\ IdleRQ

Tokenize ==
    /\ kv_pc = "start"
    /\ tokens' = tokenize(string, SpecialCharacters(separators))
    /\ kv_pc' = "tokenized"
    /\ UNCHANGED <<string, separators, kv>>
    /\ UNCHANGED <<piVars, paVars, rqVars>>

Resolve ==
    /\ kv_pc = "tokenized"
    /\ kv' = SplitFrom(string, tokens, separators, 1)
    /\ kv_pc' = "done"
    /\ UNCHANGED <<string, separators, tokens>>
    /\ UNCHANGED <<piVars, paVars, rqVars>>

NextKV == Tokenize \/ Resolve

SpecKV == InitKV /\ [][NextKV]_vars

(***************************************************************************)
(* Specification SpecItems: parse_items applied to every bounded sequence  *)
(* of items, each the KeyValue argparse builds from an item argument.      *)
(***************************************************************************)
ItemArguments ==
    { <<"A", ":", "1">>,                      \* A:1
      <<"a", ":", "2">>,                      \* a:2
      <<"a", "=", "=", "1">>,                 \* a==1
      <<"a", "=", "=", "2">>,                 \* a==2
      <<"b", "=", "=", "1">>,                 \* b==1
      <<"a", "=", "1">>,                      \* a=1
      <<"a", "=", "2">>,                      \* a=2
      <<"a", ":", "=", "1">>,                 \* a:=1
      <<"a", ":", "=", "[", "1", "]">>,       \* a:=[1]
      <<"a", ":", "=", "x">>,                 \* a:=x
      <<"a", "@", "d", "/", "t">>,            \* a@d/t
      <<"a", "@", "~", "/", "j">>,            \* a@~/j
      <<"@", "d", "/", "t">>,                 \* @d/t
      <<"a", "=", "@", "d", "/", "t">>,       \* a=@d/t
      <<"a", "=", "@", "u">>,                 \* a=@u
      <<"a", ":", "=", "@", "j">>,            \* a:=@j
      <<"a", "@", "m">> }                     \* a@m

ItemPool == {KeyValueArgType(arg, SEP_GROUP_ALL_ITEMS) : arg \in ItemArguments}

InitItems ==
    /\ pi_pc = "loop"
    /\ items \in SeqsUpTo(ItemPool, MaxItems)
    /\ form \in BOOLEAN
    /\ lists = EmptyLists
    /\ opened = <<>>
    /\ parsed = NoBuckets
    /\ IdleKV
    /\ IdlePA
    /\ IdleRQ

\* the number of items the loop has appended
Appended ==
    Len(lists.headers) + Len(lists.data) + Len(lists.files)
        + Len(lists.params)

\* one iteration of `for item in items`
ClassifyNext ==
    /\ pi_pc = "loop"
    /\ Appended < Len(items)
    /\ LET item == items[Appended + 1]
           c == ClassifyItem(item)
       IN  /\ opened' = opened \o c.opened
           /\ IF c.error /= ""
              THEN /\ parsed' = Raised(c.error, item)
                   /\ pi_pc' = "raised"
                   /\ UNCHANGED lists
              ELSE /\ lists' = [lists EXCEPT ![TargetOf(item.sep)] =
                                   Append(@, [k |-> item.key, v |-> c.value])]
                   /\ UNCHANGED <<parsed, pi_pc>>
    /\ UNCHANGED <<items, form>>
    /\ UNCHANGED <<kvVars, paVars, rqVars>>

\* the return statement: the four classes built from the four lists
ReturnItems ==
    /\ pi_pc = "loop"
    /\ Appended = Len(items)
    /\ parsed' = BuildBuckets(lists, form)
    /\ pi_pc' = IF parsed'.status = "ok" THEN "done" ELSE "raised"
    /\ UNCHANGED <<items, form, lists, opened>>
    /\ UNCHANGED <<kvVars, paVars, rqVars>>

NextItems == ClassifyNext \/ ReturnItems

SpecItems == InitItems /\ [][NextItems]_vars

(***************************************************************************)
(* Parser.parse_args (input.py 119-153): one action a step.                *)
(***************************************************************************)
\* self.error(message): argparse prints the message and exits
Fail(message) ==
    /\ pc' = "error"
    /\ error' = message

\* an exception nothing in parse_args catches
Crash(exception) ==
    /\ pc' = "crash"
    /\ error' = exception

Goto(next) ==
    /\ pc' = next
    /\ UNCHANGED error

\* input.py 129, 231-254
ApplyNoOptions ==
    /\ pc = "no_options"
    /\ steps' = Append(steps, "no_options")
    /\ args' = [args EXCEPT
                   !.download = IF "download" \in ResetDests(no_options)
                                THEN FALSE ELSE @,
                   !.form = IF "form" \in ResetDests(no_options)
                            THEN FALSE ELSE @]
    /\ IF \E i \in 1..Len(no_options) : InvalidNoOption(no_options[i])
       THEN Fail("unrecognized arguments")
       ELSE Goto("config")
    /\ UNCHANGED <<args0, env, no_options, stdin_read, prompted>>
    /\ UNCHANGED <<kvVars, piVars, rqVars>>

\* input.py 130, 199-202
ApplyConfig ==
    /\ pc = "config"
    /\ steps' = Append(steps, "config")
    /\ args' = IF ~args.json /\ env.config_form
               THEN [args EXCEPT !.form = TRUE] ELSE args
    /\ Goto("download")
    /\ UNCHANGED <<args0, env, no_options, stdin_read, prompted>>
    /\ UNCHANGED <<kvVars, piVars, rqVars>>

\* the check the documentation of --output suggests: --output needs --download
DownloadOptionsErrorStrict(a) ==
    IF ~a.download /\ (a.download_resume \/ a.output_file /= "None")
    THEN "--continue only works with --download"
    ELSE IF a.download_resume /\ ~(a.download /\ a.output_file /= "None")
    THEN "--continue requires --output to be specified"
    ELSE ""

\* input.py 381-386: the message of the error raised, "" if none
DownloadOptionsError(a) ==
    IF ~a.download /\ a.download_resume
    THEN "--continue only works with --download"
    ELSE IF a.download_resume /\ ~(a.download /\ a.output_file /= "None")
    THEN "--continue requires --output to be specified"
    ELSE ""

\* input.py 131
ValidateDownloadOptions ==
    /\ pc = "download"
    /\ steps' = Append(steps, "download")
    /\ IF DownloadOptionsError(args) /= ""
       THEN Fail(DownloadOptionsError(args))
       ELSE Goto("streams")
    /\ UNCHANGED <<args0, args, env, no_options, stdin_read, prompted>>
    /\ UNCHANGED <<kvVars, piVars, rqVars>>

\* input.py 132, 167-197
SetupStandardStreams ==
    /\ pc = "streams"
    /\ steps' = Append(steps, "streams")
    /\ IF ~env.stdout_isatty /\ args.output_file /= "None"
       THEN /\ Fail("Cannot use --output, -o with redirected output.")
            /\ UNCHANGED <<args, env>>
       ELSE /\ Goto("output_options")
            /\ IF args.download
               THEN /\ args' = IF ~env.stdout_isatty
                               THEN [args EXCEPT !.output_file = env.stdout]
                               ELSE args
                    /\ env' = [env EXCEPT !.stdout = "stderr",
                                          !.stdout_isatty = env.stderr_isatty]
               ELSE IF args.output_file /= "None"
               THEN /\ env' = [env EXCEPT !.stdout = args.output_file,
                                          !.stdout_isatty = FALSE]
                    /\ UNCHANGED args
               ELSE UNCHANGED <<args, env>>
    /\ UNCHANGED <<args0, no_options, stdin_read, prompted>>
    /\ UNCHANGED <<kvVars, piVars, rqVars>>

\* input.py 352-357: the options requested, or the default for the stream
RequestedOrDefault(a, e) ==
    IF a.output_options.none \/ a.output_options.text = <<>>
    THEN IF e.stdout_isatty THEN OUTPUT_OPTIONS_DEFAULT
         ELSE OUTPUT_OPTIONS_DEFAULT_STDOUT_REDIRECTED
    ELSE a.output_options.text

\* input.py 133, 346-369
ProcessOutputOptions ==
    /\ pc = "output_options"
    /\ steps' = Append(steps, "output_options")
    /\ LET opts == RequestedOrDefault(args, env)
       IN  IF CharsOf(opts) \ OUTPUT_OPTIONS /= {}
           THEN /\ Fail("Unknown output options")
                /\ args' = [args EXCEPT !.output_options = Some(opts)]
           ELSE /\ Goto("pretty")
                /\ IF args.download /\ OUT_RESP_BODY \in CharsOf(opts)
                   THEN \E o \in Orders(CharsOf(opts) \ {OUT_RESP_BODY}) :
                            args' = [args EXCEPT
                                        !.output_options = Some(StrOfSet(o))]
                   ELSE args' = [args EXCEPT !.output_options = Some(opts)]
    /\ UNCHANGED <<args0, env, no_options, stdin_read, prompted>>
    /\ UNCHANGED <<kvVars, piVars, rqVars>>

\* input.py 134, 371-379
ProcessPrettyOptions ==
    /\ pc = "pretty"
    /\ steps' = Append(steps, "pretty")
    /\ IF args.prettify = "tty_only"
       THEN /\ args' = [args EXCEPT !.prettify =
                           PRETTY_MAP[IF env.stdout_isatty THEN "all"
                                      ELSE "none"]]
            /\ Goto("method")
       ELSE IF env.is_windows
       THEN /\ Fail("Only terminal output can be colorized on Windows.")
            /\ UNCHANGED args
       ELSE /\ args' = [args EXCEPT !.prettify = PRETTY_MAP[args.prettify]]
            /\ Goto("method")
    /\ UNCHANGED <<args0, env, no_options, stdin_read, prompted>>
    /\ UNCHANGED <<kvVars, piVars, rqVars>>

\* not args.ignore_stdin and not env.stdin_isatty
StdinAvailable(a, e) == ~a.ignore_stdin /\ ~e.stdin_isatty

\* only standard input decides
InferredMethodStdinOnly(a, e, its) ==
    IF StdinAvailable(a, e) THEN HTTP_POST ELSE HTTP_GET

\* only the items decide
InferredMethodItemsOnly(a, e, its) ==
    IF \E i \in 1..Len(its) : its[i].sep \in SEP_GROUP_DATA_ITEMS
    THEN HTTP_POST ELSE HTTP_GET

\* input.py 298-303
InferredMethod(a, e, its) ==
    IF \/ StdinAvailable(a, e)
       \/ \E i \in 1..Len(its) : its[i].sep \in SEP_GROUP_DATA_ITEMS
    THEN HTTP_POST ELSE HTTP_GET

\* input.py 135, 267-303
GuessMethod ==
    /\ pc = "method"
    /\ steps' = Append(steps, "method")
    /\ IF args.method.none
       THEN IF args.items /= <<>>
            THEN Crash("AssertionError") /\ UNCHANGED args
            ELSE /\ args' = [args EXCEPT !.method =
                                Some(IF StdinAvailable(args, env)
                                     THEN HTTP_POST ELSE HTTP_GET)]
                 /\ Goto("items")
       ELSE IF ~IsMethodShaped(args.method.text)
       THEN LET item == KeyValueArgType(args.url, SEP_GROUP_ALL_ITEMS)
                its == <<item>> \o args.items
            IN  IF ~item.ok
                THEN /\ IF args.traceback THEN Crash("ArgumentTypeError")
                        ELSE Fail("is not a valid value")
                     /\ UNCHANGED args
                ELSE /\ args' = [args EXCEPT
                                    !.items = its,
                                    !.url = args.method.text,
                                    !.method =
                                        Some(InferredMethod(args, env, its))]
                     /\ Goto("items")
       ELSE Goto("items") /\ UNCHANGED args
    /\ UNCHANGED <<args0, env, no_options, stdin_read, prompted>>
    /\ UNCHANGED <<kvVars, piVars, rqVars>>

\* input.py 256-265 without the read: the error raised, "" if none
BodyFromFileError(a) ==
    IF Truthy(a.data)
    THEN "Request body (from stdin or a file) and request data (key=value) cannot be mixed."
    ELSE ""

\* input.py 320-323: args with the four buckets assigned
WithBuckets(a, b) ==
    [a EXCEPT !.headers = Dict(b.headers), !.data = Dict(b.data),
              !.files = Dict(b.files), !.params = Dict(b.params)]

\* the guessed Content-Type replaces the one the user gave
WithGuessedTypeAlways(headers, fn) ==
    IF GuessType(fn).none THEN headers
    ELSE CaseInsensitiveSet(headers, CONTENT_TYPE, Str(GuessType(fn).text))

\* input.py 338-344: the headers, with the Content-Type guessed from the
\* file name fn if they hold no Content-Type and a type is guessed
WithGuessedType(headers, fn) ==
    LET mime == GuessType(fn)
    IN  IF ~HasHeader(headers, CONTENT_TYPE) /\ ~mime.none
        THEN CaseInsensitiveSet(headers, CONTENT_TYPE, Str(mime.text))
        ELSE headers

\* input.py 333-344: `http url @file`, f the value of the '' file field
\* and a the args with the buckets assigned
LoneFile(a, headers, f) ==
    LET cleared == [a EXCEPT !.files = Dict(<<>>)]
    IN  IF f.t = "list" /\ Len(f.v) /= 2
        THEN \* fn, fd = a list of three or more
             Crash("ValueError") /\ args' = a
        ELSE IF BodyFromFileError(a) /= ""
        THEN Fail(BodyFromFileError(a)) /\ args' = cleared
        ELSE IF f.t = "list"
        THEN \* fd is a tuple, which cannot be read
             Crash("AttributeError") /\ args' = cleared
        ELSE /\ Goto("stdin")
             /\ args' = [cleared EXCEPT
                            !.data = Bytes(f.v[2]),
                            !.headers = Dict(WithGuessedType(headers, f.v[1]))]

\* input.py 315-336: b the RequestItems parse_items returned or the
\* exception it raised, a the args with the buckets assigned
ItemsParsed(b, a) ==
    IF b.status = "ParseError"
    THEN /\ IF args.traceback THEN Crash("ParseError")
            ELSE Fail("ParseError")
         /\ UNCHANGED args
    ELSE IF b.status /= "ok"
    THEN Crash(b.status) /\ UNCHANGED args
    ELSE IF b.files = <<>> \/ args.form
    THEN Goto("stdin") /\ args' = a
    ELSE IF [i \in 1..Len(b.files) |-> b.files[i].k] /= << <<>> >>
    THEN Fail("Invalid file fields") /\ args' = a
    ELSE LoneFile(a, b.headers, b.files[1].v)

\* input.py 311-314: r the result of parse_items and the files it opened
ItemsReturned(r) ==
    /\ opened' = r.opened
    /\ parsed' = r.res
    /\ ItemsParsed(r.res, WithBuckets(args, r.res))

\* input.py 136, 305-344
ParseItems ==
    /\ pc = "items"
    /\ steps' = Append(steps, "items")
    /\ ItemsReturned(parse_items(args.items, args.form))
    /\ UNCHANGED <<args0, env, no_options, stdin_read, prompted>>
    /\ UNCHANGED <<kvVars, pi_pc, items, form, lists, rqVars>>

\* input.py 137-138
BodyFromStdin ==
    /\ pc = "stdin"
    /\ steps' = Append(steps, "stdin")
    /\ IF StdinAvailable(args, env)
       THEN IF BodyFromFileError(args) /= ""
            THEN /\ Fail(BodyFromFileError(args))
                 /\ UNCHANGED <<args, stdin_read>>
            ELSE /\ args' = [args EXCEPT !.data = Bytes(env.stdin)]
                 /\ stdin_read' = TRUE
                 /\ Goto("url")
       ELSE Goto("url") /\ UNCHANGED <<args, stdin_read>>
    /\ UNCHANGED <<args0, env, no_options, prompted>>
    /\ UNCHANGED <<kvVars, piVars, rqVars>>

\* input.py 139-150
NormalizeUrl ==
    /\ pc = "url"
    /\ steps' = Append(steps, "url")
    /\ args' = [args EXCEPT !.url = Normalized(args.url)]
    /\ Goto("auth")
    /\ UNCHANGED <<args0, env, no_options, stdin_read, prompted>>
    /\ UNCHANGED <<kvVars, piVars, rqVars>>

\* what the user types at the prompt
Passwords == {<<"s">>}

\* the prompt is refused once standard input has been read
PromptRefusedAfterRead(a, read) == read

\* input.py 215: whether the prompt is refused
PromptRefused(a, read) == a.ignore_stdin

\* input.py 151, 204-229
ProcessAuth ==
    /\ pc = "auth"
    /\ steps' = Append(steps, "auth")
    /\ LET url == UrlSplit(args.url)
       IN  IF args.auth.given
           THEN IF ~args.auth.value.none
                THEN Goto("return") /\ UNCHANGED <<args, prompted>>
                ELSE IF PromptRefused(args, stdin_read)
                THEN /\ Fail("Unable to prompt for passwords because --ignore-stdin is set.")
                     /\ UNCHANGED <<args, prompted>>
                ELSE /\ prompted' = TRUE
                     /\ \/ \E pw \in Passwords :
                               /\ args' = [args EXCEPT !.auth.value = Some(pw)]
                               /\ Goto("return")
                        \/ \* EOFError, KeyboardInterrupt: sys.exit(0)
                           /\ pc' = "exit"
                           /\ UNCHANGED <<args, error>>
           ELSE IF ~url.username.none
           THEN /\ args' = [args EXCEPT !.auth =
                       [given |-> TRUE,
                        key |-> url.username.text,
                        value |-> Some(url.password.text),
                        orig |-> url.username.text \o SEP_CREDENTIALS
                                     \o url.password.text]]
                /\ Goto("return")
                /\ UNCHANGED prompted
           ELSE Goto("return") /\ UNCHANGED <<args, prompted>>
    /\ UNCHANGED <<args0, env, no_options, stdin_read>>
    /\ UNCHANGED <<kvVars, piVars, rqVars>>

\* input.py 153
Return ==
    /\ pc = "return"
    /\ steps' = Append(steps, "return")
    /\ Goto("done")
    /\ UNCHANGED <<args0, args, env, no_options, stdin_read, prompted>>
    /\ UNCHANGED <<kvVars, piVars, rqVars>>

(***************************************************************************)
(* httpie/client.py: get_default_headers and get_requests_kwargs, called   *)
(* with the args parse_args returned.                                      *)
(***************************************************************************)
\* client.py 18-20
FORM ==
    <<"a", "p", "p", "l", "i", "c", "a", "t", "i", "o", "n", "/",
      "x", "-", "w", "w", "w", "-", "f", "o", "r", "m", "-", "u",
      "r", "l", "e", "n", "c", "o", "d", "e", "d", ";", " ", "c",
      "h", "a", "r", "s", "e", "t", "=", "u", "t", "f", "-", "8">>
JSON ==
    <<"a", "p", "p", "l", "i", "c", "a", "t", "i", "o", "n", "/",
      "j", "s", "o", "n">>
\* 'HTTPie/' and the version, which is outside these files
DEFAULT_UA ==
    <<"H", "T", "T", "P", "i", "e", "/", "0">>

USER_AGENT ==
    <<"U", "s", "e", "r", "-", "A", "g", "e", "n", "t">>
ACCEPT ==
    <<"A", "c", "c", "e", "p", "t">>

\* The printable ASCII characters, from code 32 on (code 96, the grave
\* accent, by its name).
Ascii ==
    <<" ", "!", "\"", "#", "$", "%", "&", "'", "(", ")", "*", "+",
      ",", "-", ".", "/", "0", "1", "2", "3", "4", "5", "6", "7",
      "8", "9", ":", ";", "<", "=", ">", "?", "@", "A", "B", "C",
      "D", "E", "F", "G", "H", "I", "J", "K", "L", "M", "N", "O",
      "P", "Q", "R", "S", "T", "U", "V", "W", "X", "Y", "Z", "[",
      "\\", "]", "^", "_", "grave", "a", "b", "c", "d", "e", "f", "g",
      "h", "i", "j", "k", "l", "m", "n", "o", "p", "q", "r", "s",
      "t", "u", "v", "w", "x", "y", "z", "{", "|", "}", "~">>

Ord(char) == 31 + CHOOSE i \in 1..Len(Ascii) : Ascii[i] = char

\* str.encode('utf8') of an ASCII text
EncodeUtf8(text) == [i \in 1..Len(text) |-> Ord(text[i])]

\* client.py 57-63: a str value is encoded, any other value kept
encode_headers(headers) ==
    [i \in 1..Len(headers) |->
        [k |-> headers[i].k,
         v |-> IF headers[i].v.t = "str"
               THEN Bytes(EncodeUtf8(headers[i].v.v))
               ELSE headers[i].v]]

\* Content-Type: application/json only with a body
DefaultHeadersBodyOnly(a) ==
    LET auto_json == Truthy(a.data) /\ ~a.form
    IN  <<[k |-> USER_AGENT, v |-> Str(DEFAULT_UA)]>>
        \o (IF a.json \/ auto_json
            THEN <<[k |-> ACCEPT, v |-> Str(JSON)]>>
                 \o (IF Truthy(a.data)
                     THEN <<[k |-> CONTENT_TYPE, v |-> Str(JSON)]>>
                     ELSE <<>>)
            ELSE IF a.form /\ ~Truthy(a.files)
            THEN <<[k |-> CONTENT_TYPE, v |-> Str(FORM)]>>
            ELSE <<>>)

\* client.py 66-82: the dict in insertion order
get_default_headers(a) ==
    LET auto_json == Truthy(a.data) /\ ~a.form
    IN  <<[k |-> USER_AGENT, v |-> Str(DEFAULT_UA)]>>
        \o (IF a.json \/ auto_json
            THEN <<[k |-> ACCEPT, v |-> Str(JSON)]>>
                 \o (IF a.json \/ (auto_json /\ Truthy(a.data))
                     THEN <<[k |-> CONTENT_TYPE, v |-> Str(JSON)]>>
                     ELSE <<>>)
            ELSE IF a.form /\ ~Truthy(a.files)
            THEN <<[k |-> CONTENT_TYPE, v |-> Str(FORM)]>>
            ELSE <<>>)

\* dict.update(other): each key of other set in other's order
RECURSIVE DictUpdate(_, _)
DictUpdate(d, other) ==
    IF other = <<>> THEN d
    ELSE DictUpdate(OrderedSet(d, Head(other).k, Head(other).v), Tail(other))

\* str(n) of a natural number
RECURSIVE NumText(_)
NumText(n) ==
    IF n < 10 THEN <<Ascii[17 + n]>>
    ELSE NumText(n \div 10) \o NumText(n % 10)

\* json.dumps of a str: quoted, '"' and '\' escaped
JsonString(text) ==
    <<"\"">>
    \o Join([i \in 1..Len(text) |->
                IF text[i] \in {"\"", "\\"} THEN <<"\\", text[i]>>
                ELSE <<text[i]>>])
    \o <<"\"">>

\* json.dumps of a value of the model: a str, a number, a list of them
RECURSIVE JsonValue(_)
JsonValue(value) ==
    CASE value.t = "str" -> JsonString(value.v)
      [] value.t = "num" -> NumText(value.v)
      [] value.t = "list" ->
             <<"[">>
             \o Join([i \in 1..Len(value.v) |->
                         (IF i > 1 THEN <<",", " ">> ELSE <<>>)
                             \o JsonValue(value.v[i])])
             \o <<"]">>

\* json.dumps(data) of a dict, with the default separators
JsonDumps(d) ==
    <<"{">>
    \o Join([i \in 1..Len(d) |->
                (IF i > 1 THEN <<",", " ">> ELSE <<>>)
                    \o JsonString(d[i].k) \o <<":", " ">> \o JsonValue(d[i].v)])
    \o <<"}">>

\* client.py 91-94: the data sent; ok is FALSE for the TypeError json.dumps
\* raises for bytes
SerializedData(a) ==
    LET auto_json == Truthy(a.data) /\ ~a.form
    IN  IF a.json \/ (auto_json /\ a.data.t = "dict")
        THEN IF ~Truthy(a.data) THEN [ok |-> TRUE, data |-> Str(<<>>)]
             ELSE IF a.data.t = "dict"
             THEN [ok |-> TRUE, data |-> Str(JsonDumps(a.data.v))]
             ELSE [ok |-> FALSE, data |-> a.data]
        ELSE [ok |-> TRUE, data |-> a.data]

\* client.py 96-100: the headers sent
FinalHeaders(a, base_headers) ==
    encode_headers(
        DictUpdate(DictUpdate(get_default_headers(a), base_headers),
                   a.headers.v))

\* the headers of a session, if any: none, or Accept: s
BaseHeaders == {<<>>, <<[k |-> ACCEPT, v |-> Str(<<"s">>)]>>}

\* client.py 85-127; the entries of the result left out pass args through
GetRequestsKwargs ==
    /\ pc = "done"
    /\ \E base_headers \in BaseHeaders :
           IF ~SerializedData(args).ok
           THEN Crash("TypeError") /\ UNCHANGED rqVars
           ELSE /\ Goto("kwargs")
                /\ default_headers' = get_default_headers(args)
                /\ kwargs' =
                       [method |-> LowerText(args.method.text),
                        url |-> args.url,
                        headers |-> FinalHeaders(args, base_headers),
                        data |-> SerializedData(args).data,
                        files |-> args.files,
                        params |-> args.params]
    /\ UNCHANGED <<args0, args, env, no_options, stdin_read, prompted, steps>>
    /\ UNCHANGED <<kvVars, piVars>>

Next ==
    \/ ApplyNoOptions
    \/ ApplyConfig
    \/ ValidateDownloadOptions
    \/ SetupStandardStreams
    \/ ProcessOutputOptions
    \/ ProcessPrettyOptions
    \/ GuessMethod
    \/ ParseItems
    \/ BodyFromStdin
    \/ NormalizeUrl
    \/ ProcessAuth
    \/ Return
    \/ GetRequestsKwargs

(***************************************************************************)
(* The invocations the model starts parse_args with.                       *)
(***************************************************************************)
BaseArgs ==
    [method |-> None, url |-> <<"h", "/">>, items |-> <<>>,
     ignore_stdin |-> FALSE, auth |-> NoAuth, download |-> FALSE,
     download_resume |-> FALSE, output_file |-> "None",
     output_options |-> None, prettify |-> "tty_only", form |-> FALSE,
     json |-> FALSE, traceback |-> FALSE, headers |-> Unset, data |-> Unset,
     files |-> Unset, params |-> Unset]

BaseEnv ==
    [stdin_isatty |-> TRUE, stdout_isatty |-> TRUE, stderr_isatty |-> TRUE,
     stdout |-> "stdout", is_windows |-> FALSE, config_form |-> FALSE,
     stdin |-> <<120>>]

\* URL arguments: h/  u:p@h
UrlArguments == { <<"h", "/">>, <<"u", ":", "p", "@", "h">> }

\* ITEM arguments of the invocations
ArgItemArguments ==
    { <<"a", "=", "1">>,                      \* a=1
      <<"a", "=", "=", "1">>,                 \* a==1
      <<"a", ":", "=", "x">>,                 \* a:=x
      <<"@", "f", ".", "c">>,                 \* @f.c
      <<"@", "e">>,                           \* @e
      <<"@", "m">>,                           \* @m, no such file
      <<"a", "@", "f", ".", "c">>,            \* a@f.c
      <<"c", "o", "n", "t", "e", "n", "t", "-", "t", "y", "p", "e",
        ":", "x">> }                          \* content-type:x

ArgItemPool ==
    {KeyValueArgType(arg, SEP_GROUP_ALL_ITEMS) : arg \in ArgItemArguments}

\* http URL;  http METHOD URL [ITEM ...];  http URL ITEM [ITEM ...], where
\* argparse puts the URL in args.method and the first ITEM in args.url.
Positionals ==
    {[method |-> None, url |-> u, items |-> <<>>] : u \in UrlArguments}
    \cup {[method |-> Some(HTTP_GET), url |-> u, items |-> its] :
              u \in UrlArguments, its \in SeqsUpTo(ArgItemPool, MaxArgItems)}
    \cup {[method |-> Some(u), url |-> first, items |-> its] :
              u \in UrlArguments,
              first \in ArgItemArguments \cup {<<"x">>},
              its \in SeqsUpTo(ArgItemPool, MaxArgItems - 1)}

StartPA(a, e, nos) ==
    /\ pc = "no_options"
    /\ args0 = a
    /\ args = a
    /\ env = e
    /\ no_options = nos
    /\ stdin_read = FALSE
    /\ prompted = FALSE
    /\ error = ""
    /\ steps = <<>>
    /\ IdleKV
    /\ IdlePI
    /\ IdleRQ

\* Invocations that vary the request: positionals, stdin, --json or --form.
InitRequest ==
    \E p \in Positionals, tty \in BOOLEAN, ign \in BOOLEAN,
       jf \in {<<FALSE, FALSE>>, <<TRUE, FALSE>>, <<FALSE, TRUE>>},
       tb \in BOOLEAN :
        StartPA([BaseArgs EXCEPT !.method = p.method, !.url = p.url,
                                 !.items = p.items, !.ignore_stdin = ign,
                                 !.json = jf[1], !.form = jf[2],
                                 !.traceback = tb],
                [BaseEnv EXCEPT !.stdin_isatty = tty],
                <<>>)

\* URL arguments with and without credentials: h/  u:p@h/  h://u@h  h://h/@
AuthUrlArguments ==
    { <<"h", "/">>, <<"u", ":", "p", "@", "h", "/">>,
      <<"h", ":", "/", "/", "u", "@", "h">>,
      <<"h", ":", "/", "/", "h", "/", "@">> }

\* --auth arguments: u:p  u
AuthArguments == { <<"u", ":", "p">>, <<"u">> }

\* Invocations that vary the credentials.
InitAuth ==
    \E u \in AuthUrlArguments,
       a \in {NoAuth} \cup {AuthCredentialsArgType(x) : x \in AuthArguments},
       m \in {None, Some(HTTP_GET)}, tty \in BOOLEAN, ign \in BOOLEAN :
        StartPA([BaseArgs EXCEPT !.method = m, !.url = u, !.auth = a,
                                 !.ignore_stdin = ign],
                [BaseEnv EXCEPT !.stdin_isatty = tty],
                <<>>)

\* --print arguments: none, '', hb, HBhb, hx, b
OutputOptionArguments ==
    { None, Some(<<>>), Some(<<"h", "b">>), Some(<<"H", "B", "h", "b">>),
      Some(<<"h", "x">>), Some(<<"b">>) }

\* unknown arguments: none, --no-download, --no-form, --no-x, x
NoOptionArguments ==
    { <<>>, <<NO_PREFIX \o <<"d", "o", "w", "n", "l", "o", "a", "d">>>>,
      <<NO_PREFIX \o <<"f", "o", "r", "m">>>>,
      <<NO_PREFIX \o <<"x">>>>, <<<<"x">>>> }

\* Invocations that vary the output and download options.
InitOutput ==
    \E d \in BOOLEAN, r \in BOOLEAN, of \in {"None", "file"},
       out \in BOOLEAN, errtty \in BOOLEAN, oo \in OutputOptionArguments,
       pr \in {"tty_only", "all", "none"}, win \in BOOLEAN,
       nos \in NoOptionArguments, cf \in BOOLEAN,
       jf \in {<<FALSE, FALSE>>, <<TRUE, FALSE>>, <<FALSE, TRUE>>} :
        StartPA([BaseArgs EXCEPT !.download = d, !.download_resume = r,
                                 !.output_file = of, !.output_options = oo,
                                 !.prettify = pr, !.json = jf[1],
                                 !.form = jf[2]],
                [BaseEnv EXCEPT !.stdout_isatty = out,
                                !.stderr_isatty = errtty,
                                !.is_windows = win, !.config_form = cf],
                nos)

Init == InitRequest \/ InitAuth \/ InitOutput

Spec == Init /\ [][Next]_vars

(***************************************************************************)
(* Specification SpecUrl: the URL steps of parse_args (input.py 139-153)   *)
(* applied to every bounded URL text, from the state `http GET <url>`      *)
(* reaches before them on a terminal.                                      *)
(***************************************************************************)
UrlAlphabet == {"h", ":", "/", "8", "@"}

StepsBeforeUrl ==
    <<"no_options", "config", "download", "streams", "output_options",
      "pretty", "method", "items", "stdin">>

InitUrl ==
    \E u \in SeqsUpTo(UrlAlphabet, MaxUrlLen) :
        /\ pc = "url"
        /\ args0 = [BaseArgs EXCEPT !.method = Some(HTTP_GET), !.url = u]
        /\ args = [args0 EXCEPT !.output_options = Some(OUTPUT_OPTIONS_DEFAULT),
                                !.prettify = PRETTY_MAP["all"],
                                !.headers = Dict(<<>>), !.data = Dict(<<>>),
                                !.files = Dict(<<>>), !.params = Dict(<<>>)]
        /\ env = BaseEnv
        /\ no_options = <<>>
        /\ stdin_read = FALSE
        /\ prompted = FALSE
        /\ error = ""
        /\ steps = StepsBeforeUrl
        /\ IdleKV
        /\ IdlePI
        /\ IdleRQ

NextUrl == NormalizeUrl \/ ProcessAuth \/ Return

SpecUrl == InitUrl /\ [][NextUrl]_vars

(***************************************************************************)
(* Claims about KeyValueArgType, checked under SpecKV.                     *)
(***************************************************************************)
\* Some candidate separator occurs somewhere in the text of token i.
HasSeparator(i) ==
    \E s \in separators, p \in 0..Len(tokens[i].text) :
        StartsAt(tokens[i].text, s, p)

\* C1: the separator chosen lies in the first un-escaped token that holds any
\* candidate separator, starts at the smallest offset at which any candidate
\* occurs in that token, and is the longest candidate starting there; key
\* and value are the text around it; with no such token the call fails.
C1_EarliestThenLongest ==
    kv_pc = "done" =>
        LET cands == {i \in 1..Len(tokens) :
                          ~tokens[i].escaped /\ HasSeparator(i)}
        IN  IF cands = {} THEN ~kv.ok
            ELSE LET i == MinOf(cands)
                     token == tokens[i].text
                     before == Join(SubSeq(TokenTexts(tokens), 1, i - 1))
                     after == Join(SubSeq(TokenTexts(tokens), i + 1,
                                          Len(tokens)))
                     p == Len(kv.key) - Len(before)
                 IN  /\ kv.ok
                     /\ kv.sep \in separators
                     /\ p >= 0
                     /\ StartsAt(token, kv.sep, p)
                     /\ \A s \in separators, q \in 0..Len(token) :
                            StartsAt(token, s, q) =>
                                \/ q > p
                                \/ q = p /\ Len(s) <= Len(kv.sep)
                     /\ kv.key = before \o SubSeq(token, 1, p)
                     /\ kv.value =
                            SubSeq(token, p + Len(kv.sep) + 1, Len(token))
                                \o after
                     /\ kv.orig = string

\* 'a:=a' has been resolved to ':=' with key 'a' and value 'a'.
C1_Witness ==
    /\ kv_pc = "done"
    /\ string = <<"a", ":", "=", "a">>
    /\ separators = SEP_GROUP_ALL_ITEMS
    /\ kv.ok /\ kv.sep = SEP_DATA_RAW_JSON
    /\ kv.key = <<"a">> /\ kv.value = <<"a">>

\* The characters of str as the user means them: a backslash before a
\* special character stands for that character, escaped; any other
\* backslash, and the character after it, stand for themselves.
RECURSIVE Meant(_, _, _)
Meant(str, special, i) ==
    IF i > Len(str) THEN <<>>
    ELSE IF str[i] = "\\" /\ i < Len(str) /\ str[i + 1] \in special
    THEN <<[c |-> str[i + 1], esc |-> TRUE]>> \o Meant(str, special, i + 2)
    ELSE IF str[i] = "\\" /\ i < Len(str)
    THEN <<[c |-> "\\", esc |-> FALSE], [c |-> str[i + 1], esc |-> FALSE]>>
             \o Meant(str, special, i + 2)
    ELSE <<[c |-> str[i], esc |-> FALSE]>> \o Meant(str, special, i + 1)

\* C2: key, separator and value together are the item's characters with
\* each escaping backslash removed and every other backslash kept, and no
\* character of the matched separator is an escaped one; when every
\* separator character is escaped the item is rejected.
C2_EscapedNeverSplits ==
    kv_pc = "done" =>
        LET m == Meant(string, SpecialCharacters(separators), 1)
        IN  /\ kv.ok =>
                /\ kv.key \o kv.sep \o kv.value = [j \in 1..Len(m) |-> m[j].c]
                /\ \A j \in 1..Len(kv.sep) : ~m[Len(kv.key) + j].esc
            /\ (\A j \in 1..Len(m) :
                    m[j].esc \/ \A s \in separators : m[j].c /= s[1])
                => ~kv.ok

\* 'a\==a': the escaped '=' stays in the key and is no part of '=='.
C2_Witness ==
    /\ kv_pc = "done"
    /\ string = <<"a", "\\", "=", "=", "a">>
    /\ separators = SEP_GROUP_ALL_ITEMS
    /\ kv.ok /\ kv.key = <<"a", "=">> /\ kv.sep = SEP_DATA
    /\ kv.value = <<"a">>

(***************************************************************************)
(* Claims about parse_items, checked under SpecItems.                      *)
(***************************************************************************)
\* The bucket the claim gives each separator.
ClaimBucket(sep) ==
    CASE sep = <<":">> -> "headers"
      [] sep = <<"=", "=">> -> "params"
      [] sep = <<"@">> -> "files"
      [] sep \in {<<"=">>, <<":", "=">>, <<"=", "@">>, <<":", "=", "@">>}
             -> "data"

\* What the files of FileSystem hold, as text, and what the JSON texts of
\* the model denote.
TextOfFile ==
    (<<"d", "/", "t">> :> <<"x">>) @@ (<<"j">> :> <<"1">>)
    @@ (<<"l">> :> <<"[", "1", "]">>) @@ (<<"e">> :> <<>>)
    @@ (<<"~", "/", "j">> :> <<"2">>)

JsonOfText ==
    (<<"1">> :> Num(1)) @@ (<<"2">> :> Num(2))
    @@ (<<"[", "1", "]">> :> List(<<Num(1)>>))

\* The value the claim says is stored for an item.
ClaimValue(item) ==
    CASE item.sep \in {<<":">>, <<"=", "=">>, <<"=">>} -> Str(item.value)
      [] item.sep = <<":", "=">> -> JsonOfText[item.value]
      [] item.sep = <<"=", "@">> -> Str(TextOfFile[item.value])
      [] item.sep = <<":", "=", "@">> -> JsonOfText[TextOfFile[item.value]]
      [] item.sep = <<"@">> ->
             FileTuple(BaseName(item.value),
                       FileSystem[ExpandUser(item.value)])

SameValue(x, y) == x.t = y.t /\ x.v = y.v

\* Header names are compared without regard to case.
SameKey(bucket, k1, k2) ==
    IF bucket = "headers" THEN LowerText(k1) = LowerText(k2) ELSE k1 = k2

\* The mapping holds the value under the key, alone or in the key's list.
Holds(bucket, d, key, value) ==
    \E n \in 1..Len(d) :
        /\ SameKey(bucket, d[n].k, key)
        /\ \/ SameValue(d[n].v, value)
           \/ /\ d[n].v.t = "list"
              /\ \E m \in 1..Len(d[n].v.v) : SameValue(d[n].v.v[m], value)

BucketNames == {"headers", "data", "files", "params"}

\* A later item writes the same key of a bucket that keeps one value a key.
Superseded(i) ==
    LET b == ClaimBucket(items[i].sep)
    IN  /\ b = "headers" \/ (b = "data" /\ ~form)
        /\ \E j \in (i + 1)..Len(items) :
               /\ ClaimBucket(items[j].sep) = b
               /\ SameKey(b, items[j].key, items[i].key)

\* C3: when parse_items returns, every item was appended to exactly one of
\* the four lists, the one of its separator, with the value the separator
\* calls for (text, decoded JSON, decoded file text, decoded JSON of the
\* file text, or basename and bytes); the bucket built from that list holds
\* the value under the item's key, unless a later item of the same key
\* replaced it in a bucket that keeps one value a key; and every key of a
\* bucket comes from an item of that bucket's separators.
C3_OneBucketBySeparator ==
    pi_pc = "done" =>
        /\ \A b \in BucketNames :
               Len(lists[b]) = Cardinality({i \in 1..Len(items) :
                                               ClaimBucket(items[i].sep) = b})
        /\ \A i \in 1..Len(items) :
               LET b == ClaimBucket(items[i].sep)
               IN  /\ \E n \in 1..Len(lists[b]) :
                          /\ lists[b][n].k = items[i].key
                          /\ SameValue(lists[b][n].v, ClaimValue(items[i]))
                   /\ \/ Holds(b, parsed[b], items[i].key,
                               ClaimValue(items[i]))
                      \/ Superseded(i)
        /\ \A b \in BucketNames : \A n \in 1..Len(parsed[b]) :
               \E i \in 1..Len(items) :
                   /\ ClaimBucket(items[i].sep) = b
                   /\ SameKey(b, items[i].key, parsed[b][n].k)

\* 'a:=1' is stored as the number 1, next to a file and a query item.
C3_Witness ==
    /\ pi_pc = "done"
    /\ Len(items) = 3
    /\ items[1].orig = <<"a", ":", "=", "1">>
    /\ items[2].orig = <<"a", "@", "d", "/", "t">>
    /\ items[3].orig = <<"a", "=", "=", "1">>
    /\ parsed.data = <<[k |-> <<"a">>, v |-> Num(1)]>>
    /\ parsed.files = <<[k |-> <<"a">>, v |-> FileTuple(<<"t">>, <<120>>)]>>
    /\ parsed.params = <<[k |-> <<"a">>, v |-> Str(<<"1">>)]>>
    /\ parsed.headers = <<>>

\* The buckets that keep every value of a key.
MultiBuckets == {"params", "files"} \cup (IF form THEN {"data"} ELSE {})

\* The values appended to a list under a key, in order.
RECURSIVE ValuesOf(_, _)
ValuesOf(pairs, key) ==
    IF pairs = <<>> THEN <<>>
    ELSE IF Head(pairs).k = key
    THEN <<Head(pairs).v>> \o ValuesOf(Tail(pairs), key)
    ELSE ValuesOf(Tail(pairs), key)

\* The keys of a list in the order of their first appearance.
RECURSIVE FirstKeys(_, _)
FirstKeys(pairs, seen) ==
    IF pairs = <<>> THEN <<>>
    ELSE IF Head(pairs).k \in seen THEN FirstKeys(Tail(pairs), seen)
    ELSE <<Head(pairs).k>>
             \o FirstKeys(Tail(pairs), seen \cup {Head(pairs).k})

\* C4: when parse_items returns, in the query, file and (form mode) data
\* buckets the keys stand in the order of their first appearance, a key
\* given once maps to its value, and a key given n >= 2 times maps to the
\* list of its n values in argument order.
C4_RepeatedKeysCollapseToLists ==
    pi_pc = "done" =>
        \A b \in MultiBuckets :
            /\ [n \in 1..Len(parsed[b]) |-> parsed[b][n].k]
                   = FirstKeys(lists[b], {})
            /\ \A n \in 1..Len(parsed[b]) :
                   LET vals == ValuesOf(lists[b], parsed[b][n].k)
                   IN  IF Len(vals) = 1 THEN SameValue(parsed[b][n].v, vals[1])
                       ELSE /\ parsed[b][n].v.t = "list"
                            /\ parsed[b][n].v.v = vals

\* a==1 b==1 a==2 gives a: ['1', '2'] before b: '1'.
C4_Witness ==
    /\ pi_pc = "done"
    /\ Len(items) = 3
    /\ items[1].orig = <<"a", "=", "=", "1">>
    /\ items[2].orig = <<"b", "=", "=", "1">>
    /\ items[3].orig = <<"a", "=", "=", "2">>
    /\ parsed.params =
           <<[k |-> <<"a">>, v |-> List(<<Str(<<"1">>), Str(<<"2">>)>>)],
             [k |-> <<"b">>, v |-> Str(<<"1">>)]>>

(***************************************************************************)
(* Claims about Parser.parse_args, checked under Spec and SpecUrl.         *)
(***************************************************************************)
\* The step of parse_args that ran last.
LastStep == IF steps = <<>> THEN "" ELSE steps[Len(steps)]

OnlyLetters(text) ==
    text /= <<>> /\ \A i \in 1..Len(text) : text[i] \in Letters

\* Standard input is non-interactive and not ignored.
PipedStdin == ~env.stdin_isatty /\ ~args0.ignore_stdin

BodyBearing ==
    {<<"=">>, <<":", "=">>, <<"@">>, <<"=", "@">>, <<":", "=", "@">>}

\* C5: once _guess_method has returned: with no method token the method is
\* POST if standard input is piped and not ignored, else GET; a token in
\* the method position that is not only letters has become the URL, the
\* token of the URL position has become the first item, and the method is
\* POST if standard input is piped and not ignored or some item has a data,
\* raw-JSON, file or embedded-file separator, else GET; a token of letters
\* only is left as it is, with the URL and the items.
C5_MethodInference ==
    (LastStep = "method" /\ pc = "items") =>
        IF args0.method.none
        THEN /\ args.method = Some(IF PipedStdin THEN <<"P", "O", "S", "T">>
                                   ELSE <<"G", "E", "T">>)
             /\ args.url = args0.url /\ args.items = args0.items
        ELSE IF ~OnlyLetters(args0.method.text)
        THEN /\ args.url = args0.method.text
             /\ Len(args.items) = Len(args0.items) + 1
             /\ args.items[1].orig = args0.url
             /\ args.items[1] = KeyValueArgType(args0.url, SEP_GROUP_ALL_ITEMS)
             /\ Tail(args.items) = args0.items
             /\ args.method =
                    Some(IF \/ PipedStdin
                            \/ \E i \in 1..Len(args.items) :
                                   args.items[i].sep \in BodyBearing
                         THEN <<"P", "O", "S", "T">> ELSE <<"G", "E", "T">>)
        ELSE /\ args.method = args0.method
             /\ args.url = args0.url /\ args.items = args0.items

\* `http h/ a=1` on a terminal: the URL is h/, a=1 the first item, POST.
C5_Witness ==
    /\ LastStep = "method" /\ pc = "items"
    /\ args0.method = Some(<<"h", "/">>)
    /\ args0.url = <<"a", "=", "1">>
    /\ env.stdin_isatty
    /\ args.url = <<"h", "/">>
    /\ Len(args.items) = 1 /\ args.items[1].sep = SEP_DATA
    /\ args.method = Some(HTTP_POST)

\* text starts with letters-and-scheme-characters followed by ://
HasSchemePrefix(text) ==
    \E n \in 1..Len(text) :
        /\ text[1] \in Letters
        /\ \A i \in 2..n : text[i] \in Letters \cup Digits \cup {".", "+", "-"}
        /\ n + 3 <= Len(text)
        /\ text[n + 1] = ":" /\ text[n + 2] = "/" /\ text[n + 3] = "/"

\* The digits that follow the first character.
PortOf(text) == DigitsFrom(text, 2)

\* ':port/path' or ':/path', the port and the path possibly empty: a colon,
\* digits, then nothing or a path that starts with '/'.
IsPortPathShorthand(text) ==
    /\ Len(text) >= 1 /\ text[1] = ":"
    /\ \/ Len(text) = 1 + Len(PortOf(text))
       \/ text[2 + Len(PortOf(text))] = "/"

\* a colon that no second colon follows
IsColonShorthand(text) ==
    /\ Len(text) >= 1 /\ text[1] = ":"
    /\ Len(text) = 1 \/ text[2] /= ":"

\* http://localhost[:port]rest
Expanded(text) ==
    <<"h", "t", "t", "p", ":", "/", "/",
      "l", "o", "c", "a", "l", "h", "o", "s", "t">>
        \o (IF PortOf(text) = <<>> THEN <<>> ELSE <<":">> \o PortOf(text))
        \o SubSeq(text, 2 + Len(PortOf(text)), Len(text))

HttpPrefixed(text) == <<"h", "t", "t", "p", ":", "/", "/">> \o text

\* C6 as stated: after normalization a URL with a scheme:// prefix is
\* unchanged, a ':port/path' or ':/path' shorthand is expanded to
\* http://localhost[:port]/path, every other text has http:// prepended.
C6_Original ==
    (LastStep = "url") =>
        LET u == args0.url
        IN  /\ args.url = IF HasSchemePrefix(u) THEN u
                          ELSE IF IsPortPathShorthand(u) THEN Expanded(u)
                          ELSE HttpPrefixed(u)
            /\ HasSchemePrefix(args.url)

\* C6 as amended: after normalization a URL with a scheme:// prefix is
\* unchanged; a text that starts with ':' not followed by a second ':' is
\* expanded to http://localhost, then ':' and the digits that follow the
\* colon if any, then the rest of the text whatever it is; every other text
\* has http:// prepended; the result always starts with scheme://.
C6_UrlNormalization ==
    (LastStep = "url") =>
        LET u == args0.url
        IN  /\ args.url = IF HasSchemePrefix(u) THEN u
                          ELSE IF IsColonShorthand(u) THEN Expanded(u)
                          ELSE HttpPrefixed(u)
            /\ HasSchemePrefix(args.url)

\* :8/h has become http://localhost:8/h.
C6_Witness ==
    /\ LastStep = "url"
    /\ args0.url = <<":", "8", "/", "h">>
    /\ args.url = <<"h", "t", "t", "p", ":", "/", "/",
                    "l", "o", "c", "a", "l", "h", "o", "s", "t",
                    ":", "8", "/", "h">>

MixedMessage ==
    "Request body (from stdin or a file) and request data (key=value) cannot be mixed."

\* The items supplied body data: a data field, or (form mode off) a lone
\* '@file' that _parse_items turned into the raw body.
BodyFromItems ==
    \/ \E i \in 1..Len(args.items) :
           args.items[i].sep \in
               {<<"=">>, <<":", "=">>, <<"=", "@">>, <<":", "=", "@">>}
    \/ /\ ~args.form
       /\ \E i \in 1..Len(args.items) : args.items[i].sep = <<"@">>

\* C7 as stated: once the standard-input step has run: if standard input
\* is piped and not ignored and the items supplied body data, the step has
\* failed with the 'cannot be mixed' error and standard input was not read;
\* if the items supplied none, all of standard input's bytes are the body;
\* and standard input that is interactive or ignored is never read.
C7_OneSourceOfData ==
    /\ (LastStep = "stdin" /\ PipedStdin /\ BodyFromItems) =>
           /\ pc = "error" /\ error = MixedMessage
           /\ ~stdin_read
    /\ (LastStep = "stdin" /\ PipedStdin /\ ~BodyFromItems) =>
           /\ pc = "url" /\ stdin_read
           /\ args.data = Bytes(env.stdin)
    /\ ~PipedStdin => ~stdin_read

\* `http h/ @e` with the empty file e and piped standard input: the file
\* was the body, standard input was read and has replaced it, no error.
C7_Witness ==
    /\ LastStep = "stdin" /\ pc = "url"
    /\ PipedStdin /\ ~args.form
    /\ Len(args.items) = 1 /\ args.items[1].orig = <<"@", "e">>
    /\ stdin_read
    /\ args.data = Bytes(env.stdin)

\* The credentials a URL argument of the model carries, if any.
UrlCredentials ==
    (<<"u", ":", "p", "@", "h">> :> [user |-> <<"u">>, pass |-> <<"p">>])
    @@ (<<"u", ":", "p", "@", "h", "/">> :>
            [user |-> <<"u">>, pass |-> <<"p">>])
    @@ (<<"h", ":", "/", "/", "u", "@", "h">> :>
            [user |-> <<"u">>, pass |-> <<>>])

\* The URL argument of the invocation.
UrlArgument ==
    IF args0.method.none \/ OnlyLetters(args0.method.text) THEN args0.url
    ELSE args0.method.text

\* An explicit credential without a password was given.
NoPasswordGiven == args0.auth.given /\ args0.auth.value.none

\* No explicit credential: the URL's credentials, unprompted.
FromUrlUnprompted ==
    (LastStep = "auth" /\ ~args0.auth.given) =>
        /\ ~prompted
        /\ IF UrlArgument \in DOMAIN UrlCredentials
           THEN /\ args.auth.given
                /\ args.auth.key = UrlCredentials[UrlArgument].user
                /\ args.auth.value = Some(UrlCredentials[UrlArgument].pass)
           ELSE ~args.auth.given

RejectedByClaim ==
    \/ args.download_resume /\ args.output_file = "None"
    \/ args.download_resume /\ ~args.download
    \/ args.output_file /= "None" /\ ~args.download

C9_Original ==
    /\ (LastStep = "download" /\ pc = "error") => RejectedByClaim
    /\ (LastStep = "streams" /\ pc /= "error") => ~RejectedByClaim

\* C9 as amended: download validation rejects exactly the combinations
\* with resume and no output file or resume and no download; an output
\* file without download mode is accepted.
C9_DownloadValidation ==
    (LastStep = "download") =>
        /\ pc = "error" <=>
               \/ args.download_resume /\ args.output_file = "None"
               \/ args.download_resume /\ ~args.download
        /\ pc /= "error" => pc = "streams"

\* --download --continue without --output has been rejected.
C9_Witness ==
    /\ LastStep = "download" /\ pc = "error"
    /\ args.download /\ args.download_resume /\ args.output_file = "None"

\* The options requested, or the default for the output stream.
RequestedOptions ==
    IF args0.output_options.none \/ args0.output_options.text = <<>>
    THEN IF env.stdout_isatty THEN <<"h", "b">> ELSE <<"b">>
    ELSE args0.output_options.text

\* C10 as stated: once _process_output_options has succeeded the options
\* hold only letters of H, B, h, b: the requested ones, or h and b on a
\* terminal and b alone when redirected, without b in download mode; and a
\* requested letter outside the set has made the step fail.
C10_OutputOptions ==
    (LastStep = "output_options") =>
        /\ pc /= "error" =>
               /\ CharsOf(args.output_options.text) \subseteq {"H", "B", "h", "b"}
               /\ CharsOf(args.output_options.text) =
                      IF args.download THEN CharsOf(RequestedOptions) \ {"b"}
                      ELSE CharsOf(RequestedOptions)
        /\ pc = "error" <=>
               ~(CharsOf(RequestedOptions) \subseteq {"H", "B", "h", "b"})

\* --download on a terminal with the default options: the options are the
\* text {'h'}, whose characters are not output options.
C10_Witness ==
    /\ LastStep = "output_options" /\ pc /= "error"
    /\ args.download /\ args0.output_options.none
    /\ args.output_options.text = <<"{", "'", "h", "'", "}">>

(***************************************************************************)
(* Claims about client.py, checked under Spec once get_requests_kwargs     *)
(* has returned.                                                           *)
(***************************************************************************)
\* The mapping h holds name with the text value.
Sets(h, name, value) ==
    \E i \in 1..Len(h) : h[i].k = name /\ h[i].v = [t |-> "str", v |-> value]

\* The entries of h whose name is name.
Named(h, name) == {i \in 1..Len(h) : h[i].k = name}

\* args.data is not empty; args.files is not empty
BodyPresent == args.data.v /= <<>>
FilesAttached == args.files.v /= <<>>

\* --json, or body data and form mode off
JsonMode == args.json \/ (BodyPresent /\ ~args.form)

\* User-Agent is set, and no name is set twice.
UserAgentSet ==
    /\ \E i \in 1..Len(default_headers) : default_headers[i].k = USER_AGENT
    /\ \A i, j \in 1..Len(default_headers) :
           default_headers[i].k = default_headers[j].k => i = j

\* Form mode without JSON mode: the form Content-Type exactly when no
\* files are attached, and no Accept.
FormContentType ==
    (args.form /\ ~JsonMode) =>
        /\ Sets(default_headers, CONTENT_TYPE, FORM) <=> ~FilesAttached
        /\ Named(default_headers, CONTENT_TYPE) /= {} => ~FilesAttached
        /\ Named(default_headers, ACCEPT) = {}

\* C11 as stated: the default headers always hold User-Agent; in JSON mode
\* they hold Accept: application/json, and Content-Type: application/json
\* exactly when a body is present; in form mode without JSON mode they hold
\* the form Content-Type exactly when no files are attached.
C11_Original ==
    (pc = "kwargs") =>
        /\ UserAgentSet
        /\ JsonMode =>
               /\ Sets(default_headers, ACCEPT, JSON)
               /\ Sets(default_headers, CONTENT_TYPE, JSON) <=> BodyPresent
        /\ FormContentType

\* C11 as amended: the default headers always hold User-Agent; in JSON mode
\* they hold both Accept: application/json and Content-Type:
\* application/json, also for --json with no data; in form mode without
\* JSON mode they hold the form Content-Type exactly when no files are
\* attached; with neither mode they hold User-Agent alone.
C11_DefaultHeaders ==
    (pc = "kwargs") =>
        /\ UserAgentSet
        /\ JsonMode =>
               /\ Sets(default_headers, ACCEPT, JSON)
               /\ Sets(default_headers, CONTENT_TYPE, JSON)
               /\ Len(default_headers) = 3
        /\ FormContentType
        /\ (~JsonMode /\ ~args.form) => Len(default_headers) = 1

\* `http --json h/` on a terminal: no data, Content-Type: application/json.
C11_Witness ==
    /\ pc = "kwargs"
    /\ args.json /\ ~BodyPresent
    /\ Sets(default_headers, ACCEPT, JSON)
    /\ Sets(default_headers, CONTENT_TYPE, JSON)

\* The entries of h whose name is name but for the case of its letters.
NamedAnyCase(h, name) ==
    {i \in 1..Len(h) :
        [n \in 1..Len(h[i].k) |->
            IF h[i].k[n] \in DOMAIN Lower THEN Lower[h[i].k[n]] ELSE h[i].k[n]]
        = [n \in 1..Len(name) |->
            IF name[n] \in DOMAIN Lower THEN Lower[name[n]] ELSE name[n]]}

\* The bytes sent for a header value given as text.
Sent(value) == [t |-> "bytes", v |-> EncodeUtf8(value.v)]

\* C12 as stated: once get_requests_kwargs has returned, each header the
\* user supplied whose name is that of a default header, compared without
\* regard to case, has exactly one entry of that name in the assembled
\* headers, and the entry carries the user's value.
C12_UserHeadersOverride ==
    (pc = "kwargs") =>
        \A u \in 1..Len(args.headers.v) :
            NamedAnyCase(default_headers, args.headers.v[u].k) /= {} =>
                /\ Cardinality(NamedAnyCase(kwargs.headers,
                                            args.headers.v[u].k)) = 1
                /\ \A i \in NamedAnyCase(kwargs.headers, args.headers.v[u].k) :
                       kwargs.headers[i].v = Sent(args.headers.v[u].v)

\* `http h/ a=1 content-type:x`: the assembled headers hold both
\* Content-Type: application/json and content-type: x.
C12_Witness ==
    /\ pc = "kwargs"
    /\ \E u \in 1..Len(args.headers.v) :
           /\ args.headers.v[u].k = LowerText(CONTENT_TYPE)
           /\ Cardinality(NamedAnyCase(kwargs.headers, CONTENT_TYPE)) = 2
           /\ \E i \in Named(kwargs.headers, CONTENT_TYPE) :
                  kwargs.headers[i].v = Sent([t |-> "str", v |-> JSON])

(***************************************************************************)
(* Claims about the whole of parse_args, checked under Spec.               *)
(***************************************************************************)
\* The steps of post-processing in the order claimed, then the return.
StepOrder ==
    <<"no_options", "config", "download", "streams", "output_options",
      "pretty", "method", "items", "stdin", "url", "auth", "return">>

\* parse_args has failed: self.error, or an exception it does not catch.
Failed == pc \in {"error", "crash"} /\ kwargs = <<>> /\ "return" /= LastStep

\* The items whose classification fails: an unreadable file, a file that
\* is no UTF-8 text, invalid JSON.
FailingItems ==
    {i \in 1..Len(args.items) : ClassifyItem(args.items[i]).error /= ""}

\* The paths of the file items among the first n items, in order.
RECURSIVE PathsUpTo(_)
PathsUpTo(n) ==
    IF n = 0 THEN <<>>
    ELSE PathsUpTo(n - 1)
         \o (IF args.items[n].sep \in {<<"@">>, <<"=", "@">>, <<":", "=", "@">>}
             THEN <<args.items[n].value>> ELSE <<>>)

\* What has run at each state: the steps are a prefix of the order, none
\* twice; after a failure stdin was not read by the failing step or a later
\* one, no prompt was issued and nothing was returned; a classification
\* failure names the first failing item by its original text and no file
\* of a later item was opened.
FailFastState ==
    /\ Len(steps) <= Len(StepOrder)
    /\ steps = SubSeq(StepOrder, 1, Len(steps))
    /\ stdin_read => Len(steps) >= 9 /\ ~(Failed /\ LastStep = "stdin")
    /\ prompted => Len(steps) >= 11 /\ ~Failed
    /\ opened /= <<>> => Len(steps) >= 8
    /\ Failed => /\ Len(steps) <= 11
                 /\ default_headers = <<>>
                 /\ Len(steps) < 9 => ~stdin_read
    /\ pc \in {"done", "kwargs"} => steps = StepOrder /\ error = ""
    /\ (Len(steps) >= 8 /\ FailingItems /= {}) =>
           LET first == CHOOSE i \in FailingItems :
                            \A k \in FailingItems : i <= k
           IN  /\ Failed /\ LastStep = "items"
               /\ parsed.status = "ParseError"
               /\ parsed.orig = args.items[first].orig
               /\ opened = PathsUpTo(first)

\* Every step starts from a state that has not failed, and is the next of
\* the order; the steps never shrink.
FailFastStep ==
    /\ pc \notin {"error", "exit"}
    /\ pc = "crash" => UNCHANGED <<steps, stdin_read, prompted, opened, args>>
    /\ steps' /= steps =>
           /\ ~Failed
           /\ Len(steps) < Len(StepOrder)
           /\ steps' = Append(steps, StepOrder[Len(steps) + 1])

\* C13: the steps of parse_args run strictly in the order no-options,
\* config, download validation, stream setup, output options, pretty
\* options, method inference, item parsing, stdin read, URL normalization,
\* auth; once a step has failed no later step runs (no later item's file is
\* opened, stdin is not read, no prompt is issued), no step runs twice and
\* nothing is returned; a classification failure reports the first failing
\* item in argument order by its original text.
C13_FailFast == []FailFastState /\ [][FailFastStep]_vars

\* `http GET h/ a:=x @e` has failed on a:=x: the file e was not opened.
C13_Witness ==
    /\ Failed /\ LastStep = "items"
    /\ Len(args.items) = 2
    /\ args.items[1].orig = <<"a", ":", "=", "x">>
    /\ args.items[2].orig = <<"@", "e">>
    /\ parsed.orig = <<"a", ":", "=", "x">>
    /\ opened = <<>>
    /\ ~stdin_read /\ ~env.stdin_isatty /\ ~args.ignore_stdin

\* The file items ('@') of the invocation, and those with a name.
FileItems == {i \in 1..Len(args.items) : args.items[i].sep = <<"@">>}
NamedFileItems == {i \in FileItems : args.items[i].key /= <<>>}

\* The user gave a Content-Type header, in any letter case.
UserContentType ==
    \E i \in 1..Len(args.items) :
        /\ args.items[i].sep = <<":">>
        /\ NamedAnyCase(<<[k |-> args.items[i].key]>>, CONTENT_TYPE) /= {}

\* The path ends in .c, which mimetypes knows as text/plain.
EndsInDotC(path) ==
    Len(path) >= 2 /\ path[Len(path) - 1] = "." /\ path[Len(path)] = "c"

\* C14: once _parse_items has run with form mode off: if a file item with
\* a name was given it has failed, with 'Invalid file fields' when every
\* item could be classified; if it has succeeded with a file item, the
\* item is the only file item and has no name, the file's bytes are the
\* body, the files are empty, and the headers are the user's, with the
\* Content-Type of the file's extension added only if the user gave no
\* Content-Type in any letter case.  So after parse_args has returned with
\* form mode off the files are empty.
C14_LoneFileShorthand ==
    /\ (LastStep = "items" /\ ~args.form /\ NamedFileItems /= {}) =>
           /\ pc \in {"error", "crash"}
           /\ parsed.status = "ok" =>
                  pc = "error" /\ error = "Invalid file fields"
    /\ (LastStep = "items" /\ ~args.form /\ FileItems /= {} /\ pc = "stdin") =>
           /\ NamedFileItems = {}
           /\ Cardinality(FileItems) = 1
           /\ \A i \in FileItems :
                  /\ args.data = [t |-> "bytes",
                                  v |-> FileSystem[args.items[i].value]]
                  /\ args.headers.v =
                         IF ~UserContentType /\ EndsInDotC(args.items[i].value)
                         THEN Append(parsed.headers,
                                     [k |-> CONTENT_TYPE,
                                      v |-> [t |-> "str",
                                             v |-> <<"t", "e", "x", "t", "/",
                                                     "p", "l", "a", "i", "n">>]])
                         ELSE parsed.headers
           /\ args.files.v = <<>>
    /\ (pc \in {"done", "kwargs"} /\ ~args.form) => args.files.v = <<>>

\* `http GET h/ content-type:x @f.c`: the file is the body and the
\* Content-Type is still the user's.
C14_Witness ==
    /\ LastStep = "items" /\ pc = "stdin" /\ ~args.form
    /\ Len(args.items) = 2
    /\ args.items[2].orig = <<"@", "f", ".", "c">>
    /\ UserContentType
    /\ args.data = [t |-> "bytes", v |-> <<120>>]
    /\ args.files.v = <<>>
    /\ Len(args.headers.v) = 1
    /\ args.headers.v[1].v = [t |-> "str", v |-> <<"x">>]

\* The method was inferred: no method token, or one not of letters only.
MethodInferred == args0.method.none \/ ~OnlyLetters(args0.method.text)

\* C15: when parse_args has returned with a method inferred as GET, stdin
\* was not read and args hold no body data and no files; and when stdin
\* has been read with an inferred method, the method is POST.
C15_MethodAndBodyConsistent ==
    /\ ("return" = LastStep /\ MethodInferred
            /\ args.method.text = <<"G", "E", "T">>) =>
           /\ ~stdin_read
           /\ args.data.v = <<>>
           /\ args.files.v = <<>>
    /\ (stdin_read /\ MethodInferred) =>
           /\ ~args.method.none
           /\ args.method.text = <<"P", "O", "S", "T">>

\* `http h/ a==1` on a terminal has returned: GET, a query parameter, no
\* body.
C15_Witness ==
    /\ "return" = LastStep /\ pc = "done"
    /\ args0.method.text = <<"h", "/">>
    /\ args0.url = <<"a", "=", "=", "1">>
    /\ args.method.text = <<"G", "E", "T">>
    /\ args.params.v /= <<>>
    /\ args.data.v = <<>> /\ ~stdin_read

====
